---- MODULE Spec2Model ----
(***************************************************************************)
(* Numerical integration in "notebooks/00a - Computing integrals.ipynb".   *)
(*                                                                         *)
(* The file holds two notebook documents.  The first (lines 1-143)        *)
(* defines left_riemann_sum and right_riemann_sum with slice sizes taken   *)
(* from the notebook variable t; the second (lines 144-355) defines        *)
(* left_riemann_sum, right_riemann_sum, trapezoidal_rule and simpson_rule  *)
(* with slice sizes taken from the argument h.                             *)
(*                                                                         *)
(* Numbers are exact rationals <<numerator, denominator>> in lowest terms  *)
(* with a positive denominator: the arithmetic of the code is modelled on  *)
(* the reals, floating-point rounding is not.  A one-dimensional tensor is *)
(* a sequence of rationals.                                                *)
(***************************************************************************)
EXTENDS Integers, Sequences, FiniteSets

(***************************************************************************)
(* Bounds of the model.                                                    *)
(***************************************************************************)
\* partition points are drawn from 0..MaxCoord
MaxCoord == 4
\* tf.linspace partitions of [0,1] have 1..MaxIntervals sub-intervals
MaxIntervals == 4
\* the notebook variable t is a tensor of 0..MaxTLen elements
MaxTLen == 3

(***************************************************************************)
(* Exact arithmetic.                                                       *)
(***************************************************************************)
Abs(n) == IF n < 0 THEN -n ELSE n

RECURSIVE Gcd(_, _)
Gcd(a, b) == IF b = 0 THEN a ELSE Gcd(b, a % b)

Rat(n, d) ==
    LET g == Gcd(Abs(n), Abs(d))
        s == IF d < 0 THEN -1 ELSE 1
    IN  <<(s * n) \div g, (s * d) \div g>>

Whole(n) == <<n, 1>>

Add(a, b) == Rat(a[1] * b[2] + b[1] * a[2], a[2] * b[2])

Sub(a, b) == Rat(a[1] * b[2] - b[1] * a[2], a[2] * b[2])

Mul(a, b) == Rat(a[1] * b[1], a[2] * b[2])

\* b # 0
Div(a, b) == Rat(a[1] * b[2], a[2] * b[1])

Leq(a, b) == a[1] * b[2] <= b[1] * a[2]

(***************************************************************************)
(* Tensors, and the outcome of evaluating a tensor expression: the tensor, *)
(* or the exception the evaluation raised.                                 *)
(***************************************************************************)
Tensor(s) == [ok |-> TRUE, val |-> s, err |-> ""]

TensorError(e) == [ok |-> FALSE, val |-> <<>>, err |-> e]

(***************************************************************************)
(* The outcome of a call: a number, NaN, or a raised exception.  NoResult  *)
(* marks a function that has not been called on the current arguments.     *)
(***************************************************************************)
Value(q) == [kind |-> "value", num |-> q[1], den |-> q[2], err |-> ""]

NaN == [kind |-> "nan", num |-> 0, den |-> 1, err |-> ""]

Raise(e) == [kind |-> "error", num |-> 0, den |-> 1, err |-> e]

NoResult == [kind |-> "none", num |-> 0, den |-> 1, err |-> ""]

Undefined == TensorError("NameError")

(***************************************************************************)
(* Inputs.  An integrand is a polynomial a0 + a1*x + a2*x^2, held as its   *)
(* coefficients <<a0, a1, a2>>; it stands for the callable f.              *)
(***************************************************************************)
Integrands ==
    { <<0, 0, 0>>, <<2, 0, 0>>, <<-3, 0, 0>>,
      <<0, 1, 0>>, <<1, -2, 0>>,
      <<0, 0, 1>>, <<1, 0, -1>>, <<0, -4, 1>> }

RECURSIVE Ascending(_)
\* the elements of a finite set of integers, in increasing order
Ascending(S) ==
    IF S = {} THEN <<>>
    ELSE LET m == CHOOSE x \in S : \A y \in S : x <= y
         IN  <<Whole(m)>> \o Ascending(S \ {m})

\* every strictly increasing sequence of points of 0..MaxCoord, the
\* degenerate ones of length 0 and 1 included
Partitions == { Ascending(S) : S \in SUBSET (0 .. MaxCoord) }

\* tf.linspace(start, stop, num), num >= 1
linspace(start, stop, num) ==
    [i \in 1 .. num |->
        IF num = 1 THEN start
        ELSE Add(start, Mul(Whole(i - 1), Div(Sub(stop, start), Whole(num - 1))))]

\* the values the notebook variable t may hold: unbound, or a tensor
TValues ==
    {Undefined} \cup
    { Tensor([i \in 1 .. k |-> Whole(i - 1)]) : k \in 0 .. MaxTLen }

(***************************************************************************)
(* TensorFlow and Python operations used by the notebook.                  *)
(***************************************************************************)
\* tf.slice(h, [begin], [size]) on a one-dimensional tensor
slice(h, begin, size) ==
    LET dim == Len(h)
        s   == IF size = -1 THEN dim - begin ELSE size
    IN  IF dim = 0
        THEN IF begin = 0 /\ s = 0 THEN Tensor(<<>>)
             ELSE TensorError("InvalidArgumentError")
        ELSE IF ~(0 <= begin /\ begin <= dim)
                THEN TensorError("InvalidArgumentError")
             ELSE IF ~(0 <= s /\ begin + s <= dim)
                THEN TensorError("InvalidArgumentError")
             ELSE Tensor(SubSeq(h, begin + 1, begin + s))

\* Python's slice.indices for one bound of h[start:stop:step], step > 0
clamp(i, dim) ==
    LET j == IF i < 0 THEN i + dim ELSE i
    IN  IF j < 0 THEN 0 ELSE IF j > dim THEN dim ELSE j

\* h[start:stop:step] with step > 0 (zero-based start and stop)
strided_slice(h, start, stop, step) ==
    LET dim == Len(h)
        b   == clamp(start, dim)
        e   == clamp(stop, dim)
        n   == IF e > b THEN (e - b + step - 1) \div step ELSE 0
    IN  Tensor([k \in 1 .. n |-> h[b + (k - 1) * step + 1]])

\* h[i] for an integer i (zero-based; negative i counts from the end)
getitem(h, i) ==
    LET j == IF i < 0 THEN i + Len(h) ELSE i
    IN  IF 0 <= j /\ j < Len(h) THEN Value(h[j + 1])
        ELSE Raise("InvalidArgumentError")

\* a op b for two numbers, op one of "+", "-", "*", "/"
arith(op, a, b) ==
    CASE op = "+" -> Add(a, b)
      [] op = "-" -> Sub(a, b)
      [] op = "*" -> Mul(a, b)
      [] op = "/" -> Div(a, b)

\* x op y elementwise, with broadcasting of a dimension of size 1
elementwise(op, x, y) ==
    IF ~x.ok THEN x
    ELSE IF ~y.ok THEN y
    ELSE LET a == x.val
             b == y.val
         IN  IF ~(Len(a) = Len(b) \/ Len(a) = 1 \/ Len(b) = 1)
             THEN TensorError("InvalidArgumentError")
             ELSE LET n == IF Len(a) = 1 THEN Len(b) ELSE Len(a)
                  IN  Tensor([i \in 1 .. n |->
                                arith(op,
                                      IF Len(a) = 1 THEN a[1] ELSE a[i],
                                      IF Len(b) = 1 THEN b[1] ELSE b[i])])

\* x op y for two scalars; an exception wins, then NaN
scalar(op, x, y) ==
    IF x.kind = "error" THEN x
    ELSE IF y.kind = "error" THEN y
    ELSE IF x.kind = "nan" \/ y.kind = "nan" THEN NaN
    ELSE Value(arith(op, <<x.num, x.den>>, <<y.num, y.den>>))

\* the integrand at a point
eval(f, x) == Add(Whole(f[1]), Add(Mul(Whole(f[2]), x), Mul(Whole(f[3]), Mul(x, x))))

\* f(x) for a tensor x: the integrand applied elementwise
call(f, x) ==
    IF ~x.ok THEN x ELSE Tensor([i \in 1 .. Len(x.val) |-> eval(f, x.val[i])])

\* f(x) for a scalar x
call_scalar(f, x) ==
    IF x.kind = "value" THEN Value(eval(f, <<x.num, x.den>>)) ELSE x

RECURSIVE Sum(_)
Sum(s) == IF s = <<>> THEN Whole(0) ELSE Add(Head(s), Sum(Tail(s)))

\* tf.reduce_sum: the sum of no elements is 0
reduce_sum(x) == IF ~x.ok THEN Raise(x.err) ELSE Value(Sum(x.val))

\* tf.reduce_mean: the mean of no elements is NaN
reduce_mean(x) ==
    IF ~x.ok THEN Raise(x.err)
    ELSE IF Len(x.val) = 0 THEN NaN
    ELSE Value(Div(Sum(x.val), Whole(Len(x.val))))

(***************************************************************************)
(* State: the notebook variables f (the integrand passed to the calls), h  *)
(* (the partition passed to the calls) and t (read by the first document's *)
(* functions), the function last called on f and h, and what it returned.  *)
(***************************************************************************)
VARIABLES f, h, t, fn, result

vars == <<f, h, t, fn, result>>

(***************************************************************************)
(* The quadrature functions of the second notebook document.               *)
(***************************************************************************)
left_riemann_sum(g, p) ==
    LET left_points      == slice(p, 0, Len(p) - 1)
        right_points     == slice(p, 1, Len(p) - 1)
        intervals_length == elementwise("-", right_points, left_points)
        y                == call(g, left_points)
    IN  reduce_sum(elementwise("*", y, intervals_length))

right_riemann_sum(g, p) ==
    LET left_points      == slice(p, 0, Len(p) - 1)
        right_points     == slice(p, 1, Len(p) - 1)
        intervals_length == elementwise("-", right_points, left_points)
        y                == call(g, right_points)
    IN  reduce_sum(elementwise("*", y, intervals_length))

(***************************************************************************)
(* Faulty variants of trapezoidal_rule: slips its code could contain and   *)
(* that the properties of trapezoidal_rule below must rule out.            *)
(***************************************************************************)
\* the last sub-interval is dropped (slice size one too small)
trapezoidal_rule_short(g, p) ==
    LET left_points      == slice(p, 0, Len(p) - 2)
        right_points     == slice(p, 1, Len(p) - 2)
        intervals_length == elementwise("-", right_points, left_points)
        left_y           == call(g, left_points)
        right_y          == call(g, right_points)
        interval_height  == elementwise("+", left_y, right_y)
    IN  reduce_sum(elementwise("*",
                       elementwise("*", Tensor(<<Rat(1, 2)>>), intervals_length),
                       interval_height))

\* the factor 1/2 is omitted
trapezoidal_rule_no_half(g, p) ==
    LET left_points      == slice(p, 0, Len(p) - 1)
        right_points     == slice(p, 1, Len(p) - 1)
        intervals_length == elementwise("-", right_points, left_points)
        left_y           == call(g, left_points)
        right_y          == call(g, right_points)
        interval_height  == elementwise("+", left_y, right_y)
    IN  reduce_sum(elementwise("*", intervals_length, interval_height))

\* the height is taken twice at the left end
trapezoidal_rule_left_only(g, p) ==
    LET left_points      == slice(p, 0, Len(p) - 1)
        right_points     == slice(p, 1, Len(p) - 1)
        intervals_length == elementwise("-", right_points, left_points)
        left_y           == call(g, left_points)
        interval_height  == elementwise("+", left_y, left_y)
    IN  reduce_sum(elementwise("*",
                       elementwise("*", Tensor(<<Rat(1, 2)>>), intervals_length),
                       interval_height))

trapezoidal_rule(g, p) ==
    LET left_points      == slice(p, 0, Len(p) - 1)
        right_points     == slice(p, 1, Len(p) - 1)
        intervals_length == elementwise("-", right_points, left_points)
        left_y           == call(g, left_points)
        right_y          == call(g, right_points)
        interval_height  == elementwise("+", left_y, right_y)
    IN  reduce_sum(elementwise("*",
                       elementwise("*", Tensor(<<Rat(1, 2)>>), intervals_length),
                       interval_height))

simpson_rule(g, p) ==
    LET left_points             == slice(p, 0, Len(p) - 1)
        right_points            == slice(p, 1, Len(p) - 1)
        interval_length         == elementwise("-", right_points, left_points)
        average_interval_lenght == reduce_mean(interval_length)
    IN  scalar("*",
            scalar("/", average_interval_lenght, Value(Whole(3))),
            scalar("+",
                scalar("+",
                    scalar("+",
                        call_scalar(g, getitem(p, 0)),
                        scalar("*", Value(Whole(2)),
                               reduce_sum(call(g, strided_slice(p, 1, -1, 2))))),
                    scalar("*", Value(Whole(4)),
                           reduce_sum(call(g, strided_slice(p, 2, -1, 2))))),
                call_scalar(g, getitem(p, -1))))

(***************************************************************************)
(* The quadrature functions of the first notebook document: the size of    *)
(* both slices is t.get_shape()[0] - 1, t being a notebook variable.       *)
(***************************************************************************)
left_riemann_sum_nb1(g, p) ==
    IF ~t.ok THEN Raise(t.err)
    ELSE LET left_points      == slice(p, 0, Len(t.val) - 1)
             right_points     == slice(p, 1, Len(t.val) - 1)
             intervals_length == elementwise("-", right_points, left_points)
             y                == call(g, left_points)
         IN  reduce_sum(elementwise("*", y, intervals_length))

right_riemann_sum_nb1(g, p) ==
    IF ~t.ok THEN Raise(t.err)
    ELSE LET left_points      == slice(p, 0, Len(t.val) - 1)
             right_points     == slice(p, 1, Len(t.val) - 1)
             intervals_length == elementwise("-", right_points, left_points)
             y                == call(g, right_points)
         IN  reduce_sum(elementwise("*", y, intervals_length))

(***************************************************************************)
(* The notebook session.                                                   *)
(***************************************************************************)
Init ==
    /\ f \in Integrands
    /\ h \in Partitions
    /\ t = Undefined
    /\ fn = "none"
    /\ result = NoResult

\* another integrand is passed from now on
SetIntegrand ==
    /\ \E g \in Integrands : f' = g
    /\ fn' = "none"
    /\ result' = NoResult
    /\ UNCHANGED <<h, t>>

\* h is bound to another partition
SetPartition ==
    /\ \E p \in Partitions : h' = p
    /\ fn' = "none"
    /\ result' = NoResult
    /\ UNCHANGED <<f, t>>

\* h = tf.linspace(x_0, x_1, num) over [0, 1]
Linspace ==
    /\ \E n \in 1 .. MaxIntervals : h' = linspace(Whole(0), Whole(1), n + 1)
    /\ fn' = "none"
    /\ result' = NoResult
    /\ UNCHANGED <<f, t>>

\* some cell binds, rebinds or deletes the notebook variable t
AssignT ==
    /\ \E v \in TValues : t' = v
    /\ UNCHANGED <<f, h, fn, result>>

CallLeft ==
    /\ fn' = "left_riemann_sum"
    /\ result' = left_riemann_sum(f, h)
    /\ UNCHANGED <<f, h, t>>

CallRight ==
    /\ fn' = "right_riemann_sum"
    /\ result' = right_riemann_sum(f, h)
    /\ UNCHANGED <<f, h, t>>

CallTrapezoidal ==
    /\ fn' = "trapezoidal_rule"
    /\ result' = trapezoidal_rule(f, h)
    /\ UNCHANGED <<f, h, t>>

CallSimpson ==
    /\ fn' = "simpson_rule"
    /\ result' = simpson_rule(f, h)
    /\ UNCHANGED <<f, h, t>>

CallLeftNb1 ==
    /\ fn' = "left_riemann_sum_nb1"
    /\ result' = left_riemann_sum_nb1(f, h)
    /\ UNCHANGED <<f, h, t>>

CallRightNb1 ==
    /\ fn' = "right_riemann_sum_nb1"
    /\ result' = right_riemann_sum_nb1(f, h)
    /\ UNCHANGED <<f, h, t>>

Next ==
    \/ SetIntegrand
    \/ SetPartition
    \/ Linspace
    \/ AssignT
    \/ CallLeft
    \/ CallRight
    \/ CallTrapezoidal
    \/ CallSimpson
    \/ CallLeftNb1
    \/ CallRightNb1

Spec == Init /\ [][Next]_vars

(***************************************************************************)
(* Reference quantities the properties are stated with.  They are indexed  *)
(* sums over the partition, written without the slicing of the code.       *)
(* Indices are those of the notebook (zero-based): point i is p[i + 1].    *)
(***************************************************************************)
RECURSIVE Sigma(_, _)
\* terms[1] + ... + terms[n]
Sigma(terms, n) == IF n = 0 THEN Whole(0) ELSE Add(Sigma(terms, n - 1), terms[n])

Point(p, i) == p[i + 1]

Last(p) == Len(p) - 1

Span(p) == Sub(Point(p, Last(p)), Point(p, 0))

\* sum over i = 0..n-1 of (h[i+1] - h[i]) * f(h[i])
LeftSum(g, p) ==
    Sigma([k \in 1 .. Last(p) |->
              Mul(Sub(Point(p, k), Point(p, k - 1)), eval(g, Point(p, k - 1)))],
          Last(p))

\* sum over i = 0..n-1 of (h[i+1] - h[i]) * f(h[i+1])
RightSum(g, p) ==
    Sigma([k \in 1 .. Last(p) |->
              Mul(Sub(Point(p, k), Point(p, k - 1)), eval(g, Point(p, k)))],
          Last(p))

\* sum over i = 0..n-1 of 1/2 * (h[i+1] - h[i]) * (f(h[i]) + f(h[i+1]))
TrapezoidalSum(g, p) ==
    Sigma([k \in 1 .. Last(p) |->
              Mul(Mul(Rat(1, 2), Sub(Point(p, k), Point(p, k - 1))),
                  Add(eval(g, Point(p, k - 1)), eval(g, Point(p, k))))],
          Last(p))

\* mean of h[i+1] - h[i]
AverageSpacing(p) ==
    Div(Sigma([k \in 1 .. Last(p) |-> Sub(Point(p, k), Point(p, k - 1))], Last(p)),
        Whole(Last(p)))

\* sum of f over the odd indices 1, 3, ..., last-1 (last even)
OddSum(g, p) ==
    Sigma([j \in 1 .. (Last(p) \div 2) |-> eval(g, Point(p, 2 * j - 1))],
          Last(p) \div 2)

\* sum of f over the even interior indices 2, 4, ..., last-2 (last even)
EvenInteriorSum(g, p) ==
    Sigma([j \in 1 .. (Last(p) \div 2 - 1) |-> eval(g, Point(p, 2 * j))],
          Last(p) \div 2 - 1)

\* average_spacing/3 * (f(h[0]) + 2*even interior + 4*odd + f(h[last]))
SimpsonSum(g, p) ==
    Mul(Div(AverageSpacing(p), Whole(3)),
        Add(Add(Add(eval(g, Point(p, 0)),
                    Mul(Whole(2), EvenInteriorSum(g, p))),
                Mul(Whole(4), OddSum(g, p))),
            eval(g, Point(p, Last(p)))))

IsConstant(g) == g[2] = 0 /\ g[3] = 0

\* g is monotonic on the interval the partition spans: its derivative
\* a1 + 2*a2*x, linear in x, does not change sign between the two ends
IsMonotonicOn(g, p) ==
    LET d0 == Add(Whole(g[2]), Mul(Whole(2 * g[3]), Point(p, 0)))
        d1 == Add(Whole(g[2]), Mul(Whole(2 * g[3]), Point(p, Last(p))))
    IN  \/ Leq(Whole(0), d0) /\ Leq(Whole(0), d1)
        \/ Leq(d0, Whole(0)) /\ Leq(d1, Whole(0))

Q(r) == <<r.num, r.den>>

SecondDocument ==
    {"left_riemann_sum", "right_riemann_sum", "trapezoidal_rule", "simpson_rule"}

(***************************************************************************)
(* Properties.                                                             *)
(***************************************************************************)

\* C1: simpson_rule on a partition with an odd number of points (at least
\* 3) returns average_spacing/3 * (f(h[0]) + 2 * sum of f over the even
\* interior indices + 4 * sum of f over the odd indices + f(h[last])).
C1_SimpsonWeights ==
    (fn = "simpson_rule" /\ Len(h) >= 3 /\ Len(h) % 2 = 1)
        => result = Value(SimpsonSum(f, h))

\* C2: simpson_rule on a partition with an even number of points raises
\* an exception and returns no number.
C2_SimpsonRejectsEvenLength ==
    (fn = "simpson_rule" /\ Len(h) % 2 = 0) => result.kind = "error"

\* C3: each of the four functions of the second document raises an
\* exception on a partition of fewer than 2 points.
C3_RejectsDegeneratePartition ==
    (fn \in SecondDocument /\ Len(h) < 2) => result.kind = "error"

\* C4: for a constant integrand c and a valid partition (at least 2
\* points, an odd number of them for simpson_rule) each of the four
\* functions returns exactly c * (h[last] - h[0]).
C4_ConstantIntegrandExact ==
    (/\ fn \in SecondDocument
     /\ IsConstant(f)
     /\ Len(h) >= 2
     /\ fn = "simpson_rule" => Len(h) % 2 = 1)
        => result = Value(Mul(Whole(f[1]), Span(h)))

\* C5: left_riemann_sum, as defined in either document, returns on a
\* partition of at least 2 points the sum over i = 0..n-1 of
\* (h[i+1] - h[i]) * f(h[i]).
C5_LeftRiemannSum ==
    (fn \in {"left_riemann_sum", "left_riemann_sum_nb1"} /\ Len(h) >= 2)
        => result = Value(LeftSum(f, h))

\* C6: right_riemann_sum, as defined in either document, returns on a
\* partition of at least 2 points the sum over i = 0..n-1 of
\* (h[i+1] - h[i]) * f(h[i+1]).
C6_RightRiemannSum ==
    (fn \in {"right_riemann_sum", "right_riemann_sum_nb1"} /\ Len(h) >= 2)
        => result = Value(RightSum(f, h))

C8_ResultDependsOnArgumentsOnly ==
    [][(fn # "none" /\ fn' = fn /\ f' = f /\ h' = h) => result' = result]_vars

\* C9: for an integrand monotonic on the interval and a partition of at
\* least 2 points, the trapezoidal result lies between the left and the
\* right Riemann sums:  min(left, right) <= trapezoidal <= max(left, right).
C9_TrapezoidalBracketed ==
    (fn = "trapezoidal_rule" /\ Len(h) >= 2 /\ IsMonotonicOn(f, h))
        => LET left  == left_riemann_sum(f, h)
               right == right_riemann_sum(f, h)
               lo    == IF Leq(Q(left), Q(right)) THEN Q(left) ELSE Q(right)
               hi    == IF Leq(Q(left), Q(right)) THEN Q(right) ELSE Q(left)
           IN  /\ left.kind = "value"
               /\ right.kind = "value"
               /\ result.kind = "value"
               /\ Leq(lo, Q(result))
               /\ Leq(Q(result), hi)

\* C9 witness: trapezoidal_rule has returned for a monotonic, non-constant
\* integrand whose left and right Riemann sums differ.
C9_Witness ==
    /\ fn = "trapezoidal_rule"
    /\ Len(h) >= 3
    /\ IsMonotonicOn(f, h)
    /\ ~IsConstant(f)
    /\ left_riemann_sum(f, h) # right_riemann_sum(f, h)
    /\ result.kind = "value"

\* C10: for f(x) = x and the uniform partition of [0, 1] into n >= 1
\* sub-intervals (points i/n, i = 0..n) trapezoidal_rule returns exactly 1/2.
C10_TrapezoidalExactOnIdentity ==
    (/\ fn = "trapezoidal_rule"
     /\ f = <<0, 1, 0>>
     /\ \E n \in 1 .. MaxIntervals : h = [i \in 1 .. n + 1 |-> Rat(i - 1, n)])
        => result = Value(Rat(1, 2))

\* C10 witness: trapezoidal_rule has returned for f(x) = x on the uniform
\* partition of [0, 1] into three sub-intervals.
C10_Witness ==
    /\ fn = "trapezoidal_rule"
    /\ f = <<0, 1, 0>>
    /\ h = <<Rat(0, 3), Rat(1, 3), Rat(2, 3), Rat(3, 3)>>
    /\ result.kind = "value"

====
